---- MODULE Spec2Model ----
(***************************************************************************)
(* Model of the parallel batch question processor of app_optimized.py:     *)
(* the answer cache (AnswerCache), the batch runner (AgentRunner), the     *)
(* process-wide run state (AppState) and the handler that starts a run     *)
(* (start_processing / process_questions_async).                           *)
(*                                                                         *)
(* Threads of the program that appear here:                                *)
(*   - handler threads, one per caller id, running start_processing;       *)
(*   - one run thread per started run (run_processing), identified by the  *)
(*     caller that started it;                                             *)
(*   - the pool workers of the ThreadPoolExecutor of the current batch of  *)
(*     a run, one per item in flight.                                      *)
(* The agent (JarvisAgent) is an external component: its construction and  *)
(* each invocation are nondeterministic over the outcomes they can have.   *)
(*                                                                         *)
(* Granularity.  The check of is_processing and its assignment are separate*)
(* steps, as in process_questions_async.  A process_question call is two   *)
(* steps: the worker takes the item and looks the cache up (WorkerStart),  *)
(* and the agent invocation ends (AgentReturn), which for use_cache        *)
(* includes AnswerCache.set, mapping and file together.  as_completed is   *)
(* entered after the submits of the batch (BeginCollect) and then yields   *)
(* one future per step (Collect).                                          *)
(***************************************************************************)
(* Beside the run specifications (Spec, SpecBatch, SpecSeq) there are:     *)
(*   - SpecCache: the calls of one AnswerCache object, from its            *)
(*     construction over any cache file, one call after the other;         *)
(*   - SpecApp: one start handler with the other handlers of the page      *)
(*     (clear_cache_action, submit_answers_action on two threads) and a    *)
(*     fetched list that may hold a record without task_id;                *)
(*   - SpecTools: the tool wrappers of tools.py, call by call;             *)
(*   - SpecCli: agent.py run as a script, for every short argument list;   *)
(*   - SpecRace: the pool workers of one batch inside AnswerCache.set,     *)
(*     which takes no lock, with _save_cache step by step;                 *)
(*   - SpecFetch: the page from its start, fetch_questions_action beside   *)
(*     the runs of one start handler.                                      *)
(* SpecSeq and SpecCli start with or without the Gemini key in the         *)
(* environment; without it JarvisAgent runs on its MockAgent.              *)
(* A _save_cache call ends in one of three ways: written; open failed      *)
(* (file as before); write failed after open (file truncated).             *)
(***************************************************************************)
(* Threads are bounded by the caller ids: a caller has at most one run     *)
(* thread alive, and a behaviour starts at most runsLeft runs and suffers  *)
(* at most faultsLeft abnormal outcomes.                                   *)
(***************************************************************************)
EXTENDS Integers, Sequences, FiniteSets, TLC

\* ---------------------------------------------------------------- constants
MAX_WORKERS == 3
BATCH_SIZE == 5

\* ------------------------------------------------------------------- bounds
\* largest input list of the single-run specification (two batches)
MaxQuestions == 6
\* largest input list of the sequential-runs specification
MaxSeqQuestions == 2
\* largest input list of the concurrent-handlers specification
MaxRaceQuestions == 2
\* handler threads of the concurrent-handlers specification
NumCallers == 2
\* runs a behaviour may start, per specification
MaxRuns == 1
MaxSeqRuns == 2
MaxRaceRuns == 2
\* abnormal outcomes (agent raises, agent error answer, empty answer, failed
\* construction, failed cache write) in one behaviour
MaxFaults == 1
\* tasks that may have an entry in the cache file at start-up
MaxCached == 1
\* calls of the cache-by-call specification, and the task ids they use
MaxOps == 3
MaxKeys == 2
\* the whole-application specification: its largest input list, the runs,
\* the clear_cache_action calls and the submit_answers_action calls it may
\* make, and the handler threads that submit
MaxAppQuestions == 2
MaxAppRuns == 1
MaxAppOps == 1
MaxSubmits == 2
NumSubmitters == 2
\* longest argument list of the command line
MaxArgs == 2
\* pool workers that are inside AnswerCache.set at the same time
MaxSetters == 2
\* fetch_questions_action calls in one behaviour
MaxFetches == 2

\* ------------------------------------------------------------------ helpers
Max2(a, b) == IF a > b THEN a ELSE b
Min2(a, b) == IF a < b THEN a ELSE b
MaxN == Max2(MaxQuestions, Max2(MaxSeqQuestions, MaxRaceQuestions))
CallerIds == 1 .. NumCallers
SubmitterIds == 1 .. NumSubmitters

\* Python's None
None == "<None>"
\* a task id and a question text for the i-th fetched record
TaskId(i) == <<"task", i>>
QuestionText(i) == <<"question", i>>
QuestionRecord(i) == [task_id |-> TaskId(i), question |-> QuestionText(i)]
QuestionList(n) == [i \in 1 .. n |-> QuestionRecord(i)]
\* the lists of up to maxq well-formed records
QuestionLists(maxq) == {QuestionList(n) : n \in 0 .. maxq}
\* a fetched list whose p-th record came without its task_id
Garbled(list, p) == [list EXCEPT ![p] = [question |-> list[p].question]]
\* a record has the keys the runner reads
WellFormed(item) == "task_id" \in DOMAIN item /\ "question" \in DOMAIN item

\* answers the agent can return: str(answer).strip() may be empty
NormalAnswer == "answer"
EmptyAnswer == ""
\* JarvisAgent.__call__ catches what the underlying agent raises and returns
\* f"[ANSWER] Agent error: {e}"
InternalError == "[ANSWER] Agent error: e"
AgentAnswers == {NormalAnswer, EmptyAnswer, InternalError}
\* an answer found in the cache file at start-up
StoredAnswers == {"cached", EmptyAnswer}
\* what an agent invocation can do: return an answer or raise
Raise == "<raise>"
AgentOutcomes == AgentAnswers \cup {Raise}
\* f"AGENT ERROR: {e}"
AgentError == "AGENT ERROR: e"
ProcessingError == "PROCESSING ERROR: e"
ErrorMarkers == {AgentError, ProcessingError}

\* bool(x) of an optional string
Truthy(x) == x # None /\ x # ""

\* (completed / total_questions) * 100 as the exact fraction <<num, den>>
PercentOfBatch(done, total) == <<done * 100, Min2(BATCH_SIZE, total)>>
Percent(done, total) == <<done * 100, total>>

\* AnswerCache.get: dict.get
CacheGet(c, task_id) == IF task_id \in DOMAIN c THEN c[task_id] ELSE None
\* a set that stores nothing
CachePutLost(c, task_id, answer) == c
\* self._cache[task_id] = answer
CachePut(c, task_id, answer) ==
    [k \in DOMAIN c \cup {task_id} |-> IF k = task_id THEN answer ELSE c[k]]

\* Python's {}
EmptyMapping == [k \in {} |-> ""]
\* a clear that removes nothing
CacheClearKeeps(c) == c
\* self._cache.clear()
CacheClear(c) == EmptyMapping

\* the cache file: a JSON object, or absent, or not readable, or not JSON
FileStates == {"valid", "missing", "unreadable", "corrupt"}
ValidFile(mapping) == [state |-> "valid", content |-> mapping]
BadFile(state) == [state |-> state, content |-> EmptyMapping]

\* a load that lets the exception of open or json.load escape
LoadCacheUncaught(f) ==
    [raised |-> f.state \in {"unreadable", "corrupt"},
     mapping |-> IF f.state = "valid" THEN f.content ELSE EmptyMapping]
\* _load_cache: {} when the file does not exist; {} when open or json.load
\* raises, which is caught; else the parsed object
LoadCache(f) ==
    IF f.state = "missing" THEN [raised |-> FALSE, mapping |-> EmptyMapping]
    ELSE IF f.state \in {"unreadable", "corrupt"}
    THEN [raised |-> FALSE, mapping |-> EmptyMapping]
    ELSE [raised |-> FALSE, mapping |-> f.content]

\* how a _save_cache call can end: the file is rewritten; open(.., 'w') fails;
\* or json.dump or the closing flush fails after open has truncated the file
SaveOutcomes == {"written", "open_failed", "write_failed"}

\* range of a sequence
Range(s) == {s[k] : k \in 1 .. Len(s)}
\* the items of the batch that starts after the first start items
BatchItemsShort(start, total) == (start + 1) .. Min2(start + BATCH_SIZE, total - 1)
BatchItemsWide(start, total) == (start + 1) .. Min2(start + BATCH_SIZE + 1, total)
BatchItems(start, total) == (start + 1) .. Min2(start + BATCH_SIZE, total)

\* ------------------------------------------------------------------- state
VARIABLES
    callers,            \* handler threads that exist in this behaviour
    runsLeft,           \* runs that may still be started
    faultsLeft,         \* abnormal outcomes that may still happen
    questions_data,     \* app_state.questions_data
    processed_results,  \* app_state.processed_results
    is_processing,      \* app_state.is_processing
    agent,              \* runner.agent
    cache,              \* runner.cache._cache
    file,               \* content of answers_cache.json
    hpc,                \* handler thread: position in start_processing
    huse,               \* handler thread: the use_cache argument
    reply,              \* handler thread: what start_processing returned
    notice,             \* handler thread: message process_questions_async reported
    rpc,                \* run thread: position
    ruse,               \* run thread: use_cache
    input,              \* run thread: the questions_data argument
    batch_start,        \* run thread: batch_start
    fut,                \* run thread: per input item, the state of its future
    pre,                \* run thread: futures as_completed found finished
    fin,                \* run thread: waiter.finished_futures
    results,            \* run thread: results
    completed,          \* run thread: completed
    finished_order,     \* run thread: finished, uncollected futures, oldest first
    log,                \* run thread: the reports made to the progress callback
    lastUse,            \* use_cache of the run that last assigned processed_results
    cstate,             \* AnswerCache construction: unbuilt, ready or raised
    loaded,             \* the mapping _load_cache returned
    history,            \* the get, set and clear calls made one by one, oldest first
    opsLeft,            \* such calls that may still be made
    is_submitting,      \* app_state.is_submitting
    spc,                \* submitting thread: position in submit_answers_action
    sreply,             \* submitting thread: what submit_answers_action returned
    payload,            \* submitting thread: the answers list it posted
    submitsLeft,        \* submit_answers_action calls that may still be made
    tool_call,          \* the tool call made last: the tool and what its dependencies do
    tool_result,        \* how that call ended: a returned string or an exception
    tool_sent,          \* the search requests that call made, oldest first
    gemini_key,         \* whether the environment holds GEMINI_API_KEY or GOOGLE_API_KEY
    argv,               \* agent.py run as a script: sys.argv[1:]
    cli,                \* agent.py run as a script: position and what it has done
    wpc,                \* worker inside AnswerCache.set: position
    wans,               \* worker inside AnswerCache.set: the answer it stores
    wseen,              \* worker inside AnswerCache.set: the keys json.dump began to iterate
    wbuf,               \* worker inside AnswerCache.set: what its file object buffers
    flen,               \* length of the text in answers_cache.json
    closes,             \* the workers whose file object was closed, oldest first
    fetched,            \* what fetch_questions_action returned last
    fetchesLeft         \* fetch_questions_action calls that may still be made

shared == <<questions_data, processed_results, is_processing, agent, cache, file>>
handler == <<hpc, huse, reply, notice>>
runloc == <<ruse, input, batch_start, fut, pre, fin, results, completed,
            finished_order, log>>
budget == <<callers, runsLeft, faultsLeft>>
cacheapi == <<cstate, loaded, history, opsLeft>>
\* what the run thread, its workers and the start handler never touch
submitting == <<is_submitting, spc, sreply, payload, submitsLeft>>
tooling == <<tool_call, tool_result, tool_sent>>
\* the environment read at start-up
environ == <<gemini_key>>
cmdline == <<argv, cli>>
racing == <<wpc, wans, wseen, wbuf, flen, closes>>
fetching == <<fetched, fetchesLeft>>
rest == <<environ, cmdline, racing, fetching>>
outside == <<cacheapi, submitting, tooling, rest>>
vars == <<budget, shared, handler, rpc, runloc, lastUse, outside>>

\* the future of an item that has not been submitted
NoFuture == [st |-> "none", ans |-> None, ninv |-> 0, present |-> FALSE,
             out |-> None]

\* cache contents a start-up can load from a valid file
StartCaches ==
    UNION {[{TaskId(i) : i \in S} -> StoredAnswers] : S \in SUBSET (1 .. MaxCached)}
\* the files a start-up can find
StartFiles ==
    {ValidFile(m) : m \in StartCaches} \cup {BadFile(st) : st \in FileStates \ {"valid"}}

\* the threads at start-up: no handler is running and no run was started
InitThreads(ncallers, lists, runs) ==
    /\ callers = 1 .. ncallers
    /\ runsLeft = runs
    /\ faultsLeft = MaxFaults
    /\ questions_data \in lists
    /\ processed_results = <<>>
    /\ is_processing = FALSE
    /\ agent = None
    /\ hpc = [c \in CallerIds |-> "idle"]
    /\ huse = [c \in CallerIds |-> TRUE]
    /\ reply = [c \in CallerIds |-> None]
    /\ notice = [c \in CallerIds |-> None]
    /\ rpc = [c \in CallerIds |-> "none"]
    /\ ruse = [c \in CallerIds |-> TRUE]
    /\ input = [c \in CallerIds |-> <<>>]
    /\ batch_start = [c \in CallerIds |-> 0]
    /\ fut = [c \in CallerIds |-> <<>>]
    /\ pre = [c \in CallerIds |-> {}]
    /\ fin = [c \in CallerIds |-> <<>>]
    /\ results = [c \in CallerIds |-> <<>>]
    /\ completed = [c \in CallerIds |-> 0]
    /\ finished_order = [c \in CallerIds |-> <<>>]
    /\ log = [c \in CallerIds |-> <<>>]
    /\ lastUse = FALSE
    /\ is_submitting = FALSE
    /\ spc = [s \in SubmitterIds |-> "idle"]
    /\ sreply = [s \in SubmitterIds |-> None]
    /\ payload = [s \in SubmitterIds |-> <<>>]
    /\ tool_call = [tool |-> None, has_keys |-> FALSE, dep |-> None, ddg |-> None]
    /\ tool_result = [raised |-> FALSE, value |-> None]
    /\ tool_sent = <<>>

\* agent.py at a position, with nothing done
CliAt(pc) == [pc |-> pc, usage |-> FALSE, status |-> None, q |-> None,
              built |-> None, summary |-> None, printed |-> <<>>]
\* agent.py is not run as a script
NoCli == argv = <<>> /\ cli = CliAt("none")
\* the workers that call AnswerCache.set at the same time
SetterIds == 1 .. MaxSetters
\* a file object's buffer: nothing, the text of a mapping, or the head of a
\* text that json.dump did not finish
NoBuffer == [kind |-> "none", mapping |-> EmptyMapping, len |-> 0]
\* no worker is followed through AnswerCache.set
NoRace ==
    /\ wpc = [w \in SetterIds |-> "none"]
    /\ wans = [w \in SetterIds |-> None]
    /\ wseen = [w \in SetterIds |-> {}]
    /\ wbuf = [w \in SetterIds |-> NoBuffer]
    /\ flen = 0
    /\ closes = <<>>
\* what fetch_questions_action returns: the status message, the count and
\* whether the process and the submit button are interactive
FetchReturn(message, count, enabled) ==
    [message |-> message, count |-> count, process_btn |-> enabled,
     submit_btn |-> enabled]
\* no fetch is made
NoFetch == fetched = FetchReturn(None, 0, FALSE) /\ fetchesLeft = 0
\* the page with its questions fetched, and no fetch, script or worker followed
Quiet == NoCli /\ NoRace /\ NoFetch

\* start-up over a valid cache file: runner = AgentRunner() has loaded it
InitWith(ncallers, maxq, runs) ==
    /\ InitThreads(ncallers, QuestionLists(maxq), runs)
    /\ Quiet
    /\ \E m \in StartCaches : file = ValidFile(m)
    /\ cache = LoadCache(file).mapping
    /\ cstate = "ready"
    /\ loaded = cache
    /\ history = <<>>

\* concurrent handlers, short input lists
Init ==
    /\ InitWith(NumCallers, MaxRaceQuestions, MaxRaceRuns)
    /\ opsLeft = 0 /\ submitsLeft = 0
    /\ gemini_key = TRUE
\* one handler thread, one run, input lists of up to two batches
InitBatch ==
    /\ InitWith(1, MaxQuestions, MaxRuns)
    /\ opsLeft = 0 /\ submitsLeft = 0
    /\ gemini_key = TRUE
\* one handler thread, runs one after the other, with or without the
\* Gemini key in the environment
InitSeq ==
    /\ InitWith(1, MaxSeqQuestions, MaxSeqRuns)
    /\ opsLeft = 0 /\ submitsLeft = 0
    /\ gemini_key \in BOOLEAN

\* ------------------------------------------------- start_processing handler
\* start_processing up to its call of process_questions_async; a call that
\* goes on to process_questions_async counts against runsLeft
StartProcessing(c, use_cache_val) ==
    /\ c \in callers
    /\ hpc[c] = "idle"
    /\ IF is_processing
       THEN /\ reply' = [reply EXCEPT ![c] = "Already processing..."]
            /\ UNCHANGED <<hpc, huse, runsLeft>>
       ELSE /\ runsLeft > 0
            /\ runsLeft' = runsLeft - 1
            /\ hpc' = [hpc EXCEPT ![c] = "pqa"]
            /\ huse' = [huse EXCEPT ![c] = use_cache_val]
            /\ UNCHANGED reply
    /\ UNCHANGED <<callers, faultsLeft, shared, notice, rpc, runloc, lastUse, outside>>

\* the checks with the flag looked at first
AsyncChecksFlagFirst(questions, processing) ==
    IF processing THEN "Already processing questions..."
    ELSE IF questions = <<>> THEN "No questions loaded. Please fetch questions first."
    ELSE None
\* the two checks of process_questions_async, in their order: the message
\* of the one that ends the call, None when the call goes on
AsyncChecks(questions, processing) ==
    IF questions = <<>> THEN "No questions loaded. Please fetch questions first."
    ELSE IF processing THEN "Already processing questions..."
    ELSE None

\* process_questions_async: the two checks before the flag is set
ProcessQuestionsAsyncCheck(c) ==
    /\ hpc[c] = "pqa"
    /\ IF AsyncChecks(questions_data, is_processing) # None
       THEN /\ notice' = [notice EXCEPT ![c] = AsyncChecks(questions_data, is_processing)]
            /\ hpc' = [hpc EXCEPT ![c] = "idle"]
            /\ reply' = [reply EXCEPT ![c] = "Started processing questions..."]
       ELSE /\ hpc' = [hpc EXCEPT ![c] = "set"]
            /\ UNCHANGED <<notice, reply>>
    /\ UNCHANGED <<budget, shared, huse, rpc, runloc, lastUse, outside>>

\* process_questions_async: set the flag and start the run_processing thread
\* (once the caller's previous run thread has ended)
ProcessQuestionsAsyncStart(c) ==
    /\ hpc[c] = "set"
    /\ rpc[c] = "none"
    /\ is_processing' = TRUE
    /\ rpc' = [rpc EXCEPT ![c] = "start"]
    /\ ruse' = [ruse EXCEPT ![c] = huse[c]]
    /\ hpc' = [hpc EXCEPT ![c] = "idle"]
    /\ reply' = [reply EXCEPT ![c] = "Started processing questions..."]
    /\ UNCHANGED <<budget, questions_data, processed_results, agent, cache, file,
                   huse, notice, input, batch_start, fut, pre, fin, results,
                   completed, finished_order, log, lastUse, outside>>

\* ------------------------------------------------------------ run thread
\* a report made through _update_progress
Report(kind, done, pct) == [kind |-> kind, completed |-> done, percent |-> pct]

\* how the construction of the model, the tools and the ToolCallingAgent ends
FullAgentOutcomes == {"ok", "raises"}
\* what a JarvisAgent runs its questions on
AgentKinds == {"ToolCallingAgent", "MockAgent"}

\* JarvisAgent.__init__: self.agent.  Without the Gemini key it is the
\* MockAgent of _create_fallback_agent; with the key it is the
\* ToolCallingAgent, or the MockAgent again when building that one raised
JarvisAgent(key, full) ==
    IF ~key THEN "MockAgent" ELSE IF full = "ok" THEN "ToolCallingAgent" ELSE "MockAgent"

\* a constructor that takes the key with require_key, which raises without it
InitOutcomesRequireKey == IF agent # None THEN {TRUE}
                          ELSE IF ~gemini_key THEN {FALSE}
                          ELSE IF faultsLeft > 0 THEN {TRUE, FALSE} ELSE {TRUE}
\* outcomes of initialize_agent's try: True when it has an agent, False when
\* JarvisAgent() raised.  A runner that has its agent constructs nothing; a
\* construction without the key builds no model, tool or agent and calls
\* nothing that fails.
InitOutcomes == IF agent # None THEN {TRUE}
                ELSE IF ~gemini_key THEN {TRUE}
                ELSE IF faultsLeft > 0 THEN {TRUE, FALSE} ELSE {TRUE}

\* outcomes of one invocation of the agent: every answer of the MockAgent is
\* "[ANSWER] ..." text, never the empty string
AgentOutcomesOf(kind) ==
    IF kind = "MockAgent" THEN AgentOutcomes \ {EmptyAnswer} ELSE AgentOutcomes

\* a runner that goes on to the batches whatever initialize_agent returned
AfterInitGoesOn(ok, total) == IF total = 0 THEN "return" ELSE "batch"
\* where process_questions_parallel goes after initialize_agent: it returns
\* [] when initialization failed, else it enters the batch loop (which an
\* empty list leaves at once)
AfterInit(ok, total) ==
    IF ~ok THEN "return" ELSE IF total = 0 THEN "return" ELSE "batch"

\* run_processing up to the first batch: set_progress_callback,
\* initialize_agent and the head of process_questions_parallel
RunBegin(c) ==
    /\ rpc[c] = "start"
    /\ input' = [input EXCEPT ![c] = questions_data]
    /\ results' = [results EXCEPT ![c] = <<>>]
    /\ completed' = [completed EXCEPT ![c] = 0]
    /\ finished_order' = [finished_order EXCEPT ![c] = <<>>]
    /\ batch_start' = [batch_start EXCEPT ![c] = 0]
    /\ fut' = [fut EXCEPT ![c] = [i \in 1 .. Len(questions_data) |-> NoFuture]]
    /\ pre' = [pre EXCEPT ![c] = {}]
    /\ fin' = [fin EXCEPT ![c] = <<>>]
    /\ \E ok \in InitOutcomes, full \in FullAgentOutcomes :
         IF ok
         THEN /\ IF agent # None
                 THEN full = "ok" /\ UNCHANGED <<agent, faultsLeft>>
                 ELSE /\ full = "raises" => gemini_key /\ faultsLeft > 0
                      /\ agent' = JarvisAgent(gemini_key, full)
                      /\ faultsLeft' = faultsLeft - (IF full = "raises" THEN 1 ELSE 0)
              /\ log' = [log EXCEPT ![c] = <<Report("start", 0, Percent(0, 1))>>]
              /\ rpc' = [rpc EXCEPT ![c] = AfterInit(TRUE, Len(questions_data))]
         ELSE /\ full = "ok"
              /\ faultsLeft' = faultsLeft - 1
              /\ log' = [log EXCEPT ![c] = <<Report("init_error", 0, None)>>]
              /\ rpc' = [rpc EXCEPT ![c] = AfterInit(FALSE, Len(questions_data))]
              /\ UNCHANGED agent
    /\ UNCHANGED <<callers, runsLeft, questions_data, processed_results,
                   is_processing, cache, file, handler, ruse, lastUse, outside>>

\* the executor.submit calls of one batch
\* the items of the batch whose submit is reached: the evaluation of
\* item["task_id"] for a record without the key raises KeyError
Reached(c) ==
    LET batch == BatchItems(batch_start[c], Len(input[c]))
        bad == {i \in batch : ~WellFormed(input[c][i])}
    IN  {i \in batch : \A j \in bad : i < j}

\* the executor.submit calls of one batch; when one raises, the exception
\* leaves the with block, whose exit waits for the workers ("raising")
SubmitBatch(c) ==
    /\ rpc[c] = "batch"
    /\ batch_start[c] < Len(input[c])
    /\ fut' = [fut EXCEPT ![c] =
                 [i \in DOMAIN fut[c] |->
                    IF i \in Reached(c)
                    THEN [fut[c][i] EXCEPT !.st = "queued"]
                    ELSE fut[c][i]]]
    /\ rpc' = [rpc EXCEPT ![c] =
                 IF Reached(c) = BatchItems(batch_start[c], Len(input[c]))
                 THEN "submitted" ELSE "raising"]
    /\ UNCHANGED <<budget, shared, handler, ruse, input, batch_start, pre, fin,
                   results, completed, finished_order, log, lastUse, outside>>

\* ------------------------------------------------------------ pool workers
\* items of run c whose process_question call has started and not returned
InFlight(c) == {i \in DOMAIN fut[c] : fut[c][i].st = "agent"}

\* the process_question call of item i returns answer: its future finishes,
\* and as_completed's waiter, once installed, notes it in completion order
FinishCall(c, i, f, answer) ==
    /\ finished_order' = [finished_order EXCEPT ![c] = Append(@, i)]
    /\ fut' = [fut EXCEPT ![c][i] = [f EXCEPT !.st = "finished", !.ans = answer]]
    /\ fin' = IF rpc[c] = "collect"
              THEN [fin EXCEPT ![c] = Append(@, i)]
              ELSE fin

\* a lookup that ignores use_cache
LookupAlways(use_cache, task_id) == CacheGet(cache, task_id)
\* process_question's cache check: cached_answer, None when use_cache is off
Lookup(use_cache, task_id) ==
    IF use_cache THEN CacheGet(cache, task_id) ELSE None

\* a pool worker takes the oldest queued item and runs process_question up
\* to the agent invocation: the cache lookup and the agent check
WorkerStart(c, i) ==
    /\ rpc[c] \in {"submitted", "collect", "raising"}
    /\ i \in DOMAIN fut[c]
    /\ fut[c][i].st = "queued"
    /\ \A j \in DOMAIN fut[c] : j < i => fut[c][j].st # "queued"
    /\ Cardinality(InFlight(c)) < MAX_WORKERS
    /\ LET task_id == input[c][i].task_id
           cached_answer == Lookup(ruse[c], task_id)
           f == [fut[c][i] EXCEPT !.present = ruse[c] /\ task_id \in DOMAIN cache]
       IN  IF Truthy(cached_answer)
           THEN FinishCall(c, i, f, cached_answer)
           ELSE IF agent = None
           THEN FinishCall(c, i, f, AgentError)
           ELSE /\ fut' = [fut EXCEPT ![c][i] =
                             [f EXCEPT !.st = "agent", !.ninv = @ + 1]]
                /\ UNCHANGED <<fin, finished_order>>
    /\ UNCHANGED <<budget, shared, handler, rpc, ruse, input, batch_start, pre,
                   results, completed, log, lastUse, outside>>

\* abnormal outcomes in one process_question call: an agent outcome other
\* than a normal answer, and a failed write of the cache file
Faults(o, saved) ==
    (IF o = NormalAnswer THEN 0 ELSE 1) + (IF saved = "written" THEN 0 ELSE 1)

\* a save that writes nothing
SaveCacheDeferred(mapping, saved) == file
\* _save_cache: the file gets the whole mapping; or the failure, which is
\* swallowed, leaves the file as it was (open failed) or truncated (the write
\* failed after open)
SaveCache(mapping, saved) ==
    IF saved = "written" THEN ValidFile(mapping)
    ELSE IF saved = "open_failed" THEN file
    ELSE BadFile("corrupt")

\* AnswerCache.set: the entry, then the file
AnswerCacheSet(task_id, answer, saved) ==
    /\ cache' = CachePut(cache, task_id, answer)
    /\ file' = SaveCache(cache', saved)
\* a clear that leaves the file alone
AnswerCacheClearUnsaved(saved) ==
    /\ cache' = CacheClear(cache)
    /\ UNCHANGED file
\* AnswerCache.clear: the mapping, then the file
AnswerCacheClear(saved) ==
    /\ cache' = CacheClear(cache)
    /\ file' = SaveCache(cache', saved)

\* a set whose failed save reaches process_question's except clause
SetReturnsSaveError(answer, saved) ==
    IF saved = "written" THEN answer ELSE AgentError
\* what process_question returns after cache.set: the answer, _save_cache
\* having swallowed the failure of the write
SetReturns(answer, saved) == answer

\* an except clause that invokes the agent again
OnRaiseRetry(c, i, f) ==
    /\ fut' = [fut EXCEPT ![c][i] = [f EXCEPT !.ninv = @ + 1]]
    /\ UNCHANGED <<fin, finished_order>>
\* process_question's except clause: the call returns the error string
OnRaise(c, i, f) == FinishCall(c, i, f, AgentError)

\* a process_question that stores every answer
StoresAlways(use_cache) == TRUE
\* if use_cache: self.cache.set(task_id, answer)
Stores(use_cache) == use_cache

\* the agent invocation of item i ends and process_question returns: the
\* answer, after AnswerCache.set (mapping, then file) when use_cache; or the
\* error string when the invocation raised
AgentReturn(c, i) ==
    /\ i \in DOMAIN fut[c]
    /\ fut[c][i].st = "agent"
    /\ \E o \in AgentOutcomesOf(agent), saved \in SaveOutcomes :
         LET f == [fut[c][i] EXCEPT !.out = o]
         IN  /\ Faults(o, saved) <= faultsLeft
             /\ faultsLeft' = faultsLeft - Faults(o, saved)
             /\ IF o = Raise
                THEN /\ saved = "written"
                     /\ OnRaise(c, i, f)
                     /\ UNCHANGED <<cache, file>>
                ELSE IF Stores(ruse[c])
                THEN /\ AnswerCacheSet(input[c][i].task_id, o, saved)
                     /\ FinishCall(c, i, f, SetReturns(o, saved))
                ELSE /\ saved = "written"
                     /\ FinishCall(c, i, f, o)
                     /\ UNCHANGED <<cache, file>>
    /\ UNCHANGED <<callers, runsLeft, questions_data, processed_results,
                   is_processing, agent, handler, rpc, ruse, input,
                   batch_start, pre, results, completed, log, lastUse, outside>>

\* --------------------------------------------------- collecting the results
\* as_completed starts: the futures already finished are set aside, to be
\* yielded first (in the iteration order of a set), and the waiter is installed
BeginCollect(c) ==
    /\ rpc[c] = "submitted"
    /\ pre' = [pre EXCEPT ![c] = {i \in DOMAIN fut[c] : fut[c][i].st = "finished"}]
    /\ rpc' = [rpc EXCEPT ![c] = "collect"]
    /\ UNCHANGED <<budget, shared, handler, ruse, input, batch_start, fut, fin,
                   results, completed, finished_order, log, lastUse, outside>>

\* an as_completed that yields any finished future
YieldableAny(c) == pre[c] \cup Range(fin[c])
\* the futures as_completed can yield next
Yieldable(c) == IF pre[c] # {} THEN pre[c]
                ELSE IF fin[c] # <<>> THEN {Head(fin[c])} ELSE {}

\* the result record of item i
ResultRecord(c, i) ==
    [task_id |-> input[c][i].task_id,
     question |-> input[c][i].question,
     submitted_answer |-> fut[c][i].ans]

\* a loop that reports without counting
CountedNot(done) == done
\* completed += 1
Counted(done) == done + 1

\* one turn of the as_completed loop; after the last future of the batch the
\* executor is shut down and the next batch, or the return, follows
Collect(c, i) ==
    /\ rpc[c] = "collect"
    /\ i \in Yieldable(c)
    /\ results' = [results EXCEPT ![c] = Append(@, ResultRecord(c, i))]
    /\ completed' = [completed EXCEPT ![c] = Counted(@)]
    /\ log' = [log EXCEPT ![c] =
                 Append(@, Report("item", completed'[c],
                                  Percent(completed'[c], Len(input[c]))))]
    /\ fut' = [fut EXCEPT ![c][i].st = "collected"]
    /\ pre' = [pre EXCEPT ![c] = @ \ {i}]
    /\ fin' = IF pre[c] # {} THEN fin ELSE [fin EXCEPT ![c] = Tail(@)]
    /\ IF \A j \in BatchItems(batch_start[c], Len(input[c])) :
            j = i \/ fut[c][j].st = "collected"
       THEN /\ batch_start' = [batch_start EXCEPT ![c] = @ + BATCH_SIZE]
            /\ rpc' = [rpc EXCEPT ![c] =
                         IF batch_start[c] + BATCH_SIZE < Len(input[c])
                         THEN "batch" ELSE "return"]
       ELSE UNCHANGED <<batch_start, rpc>>
    /\ finished_order' = [finished_order EXCEPT ![c] = SelectSeq(@, LAMBDA j : j # i)]
    /\ UNCHANGED <<budget, shared, handler, ruse, input, lastUse, outside>>

\* process_questions_parallel has returned: run_processing stores the list,
\* reports and resets the flag
RunDone(c) ==
    /\ rpc[c] = "return"
    /\ processed_results' = results[c]
    /\ lastUse' = ruse[c]
    /\ log' = [log EXCEPT ![c] = Append(@, Report("done", completed[c], Percent(1, 1)))]
    /\ is_processing' = FALSE
    /\ rpc' = [rpc EXCEPT ![c] = "none"]
    /\ fut' = [fut EXCEPT ![c] = <<>>]
    /\ results' = [results EXCEPT ![c] = <<>>]
    /\ completed' = [completed EXCEPT ![c] = 0]
    /\ finished_order' = [finished_order EXCEPT ![c] = <<>>]
    /\ batch_start' = [batch_start EXCEPT ![c] = 0]
    /\ input' = [input EXCEPT ![c] = <<>>]
    /\ UNCHANGED <<budget, questions_data, agent, cache, file, handler, ruse,
                   pre, fin, outside>>

\* process_questions_parallel raises: the workers of the submitted items are
\* done, run_processing reports the error and resets the flag, and
\* processed_results stays as it was
RunRaise(c) ==
    /\ rpc[c] = "raising"
    /\ \A i \in DOMAIN fut[c] : fut[c][i].st \notin {"queued", "agent"}
    /\ log' = [log EXCEPT ![c] = Append(@, Report("error", completed[c], None))]
    /\ is_processing' = FALSE
    /\ rpc' = [rpc EXCEPT ![c] = "none"]
    /\ fut' = [fut EXCEPT ![c] = <<>>]
    /\ results' = [results EXCEPT ![c] = <<>>]
    /\ completed' = [completed EXCEPT ![c] = 0]
    /\ finished_order' = [finished_order EXCEPT ![c] = <<>>]
    /\ batch_start' = [batch_start EXCEPT ![c] = 0]
    /\ input' = [input EXCEPT ![c] = <<>>]
    /\ UNCHANGED <<budget, questions_data, processed_results, agent, cache, file,
                   handler, ruse, pre, fin, lastUse, outside>>

\* ---------------------------------------------------- submit_answers_action
\* a payload with the newest result first
AnswersNewestFirst(list) ==
    [k \in 1 .. Len(list) |->
       [task_id |-> list[Len(list) + 1 - k].task_id,
        submitted_answer |-> list[Len(list) + 1 - k].submitted_answer]]
\* the answers list of the submission payload
Answers(list) ==
    [k \in 1 .. Len(list) |->
       [task_id |-> list[k].task_id, submitted_answer |-> list[k].submitted_answer]]

\* the three checks of submit_answers_action, in their order: the message of
\* the one that ends the call, None when the call goes on
SubmitChecks(profile, list, busy) ==
    IF profile = None THEN "Please log in to Hugging Face first."
    ELSE IF list = <<>> THEN "No processed results to submit."
    ELSE IF busy THEN "Already submitting..."
    ELSE None

\* submit_answers_action up to the assignment of the flag: the three checks
SubmitAnswersCheck(s, profile) ==
    /\ spc[s] = "idle"
    /\ submitsLeft > 0
    /\ submitsLeft' = submitsLeft - 1
    /\ IF SubmitChecks(profile, processed_results, is_submitting) # None
       THEN /\ sreply' = [sreply EXCEPT ![s] =
                            SubmitChecks(profile, processed_results, is_submitting)]
            /\ UNCHANGED spc
       ELSE /\ spc' = [spc EXCEPT ![s] = "set"]
            /\ sreply' = [sreply EXCEPT ![s] = None]
    /\ UNCHANGED <<budget, shared, handler, rpc, runloc, lastUse, cacheapi,
                   is_submitting, payload, tooling, rest>>

\* the flag is set and submit_answers posts the payload it builds from
\* processed_results
SubmitAnswersSet(s) ==
    /\ spc[s] = "set"
    /\ is_submitting' = TRUE
    /\ payload' = [payload EXCEPT ![s] = Answers(processed_results)]
    /\ spc' = [spc EXCEPT ![s] = "post"]
    /\ UNCHANGED <<budget, shared, handler, rpc, runloc, lastUse, cacheapi,
                   sreply, submitsLeft, tooling, rest>>

\* how the POST can end: 2xx with a JSON body, an HTTP error status, or any
\* other exception (timeout, connection, body not JSON)
PostOutcomes == {"ok", "http_error", "error"}
\* the message submit_answers returns
SubmitMessage(o) ==
    IF o = "ok" THEN "Submission Successful!"
    ELSE IF o = "http_error" THEN "Submission Failed: Server responded with status"
    ELSE "Submission Failed: e"

\* a finally clause that resets the flag after a successful POST only
ResetAfterOk(o) == IF o = "ok" THEN FALSE ELSE is_submitting
\* the finally clause of submit_answers_action
ResetAfter(o) == FALSE

\* the POST ends, submit_answers returns its message, the flag is reset
SubmitAnswersReturn(s) ==
    /\ spc[s] = "post"
    /\ \E o \in PostOutcomes :
         /\ sreply' = [sreply EXCEPT ![s] = SubmitMessage(o)]
         /\ is_submitting' = ResetAfter(o)
    /\ spc' = [spc EXCEPT ![s] = "idle"]
    /\ UNCHANGED <<budget, shared, handler, rpc, runloc, lastUse, cacheapi,
                   payload, submitsLeft, tooling, rest>>

\* ------------------------------------------------- AnswerCache, call by call
\* the task ids the calls use
CacheKeys == {TaskId(i) : i \in 1 .. MaxKeys}
\* a call as the history keeps it: what was called with what, what it
\* returned (get) and how its save ended (set, clear)
Call(op, task_id, answer, saved) ==
    [op |-> op, task_id |-> task_id, answer |-> answer, saved |-> saved]

\* AnswerCache.__init__: self._cache = self._load_cache()
Construct ==
    /\ cstate = "unbuilt"
    /\ LET r == LoadCache(file)
       IN  /\ cstate' = IF r.raised THEN "raised" ELSE "ready"
           /\ cache' = r.mapping
           /\ loaded' = r.mapping
    /\ UNCHANGED <<budget, questions_data, processed_results, is_processing,
                   agent, file, handler, rpc, runloc, lastUse, history, opsLeft,
                   submitting, tooling, rest>>

\* a call of AnswerCache.get
CacheGetCall(task_id) ==
    /\ cstate = "ready"
    /\ opsLeft > 0
    /\ opsLeft' = opsLeft - 1
    /\ history' = Append(history, Call("get", task_id, CacheGet(cache, task_id), None))
    /\ UNCHANGED <<budget, shared, handler, rpc, runloc, lastUse, cstate, loaded,
                   submitting, tooling, rest>>

\* a call of AnswerCache.set
CacheSetCall(task_id, answer) ==
    /\ cstate = "ready"
    /\ opsLeft > 0
    /\ opsLeft' = opsLeft - 1
    /\ \E saved \in SaveOutcomes :
         /\ AnswerCacheSet(task_id, answer, saved)
         /\ history' = Append(history, Call("set", task_id, answer, saved))
    /\ UNCHANGED <<budget, questions_data, processed_results, is_processing,
                   agent, handler, rpc, runloc, lastUse, cstate, loaded,
                   submitting, tooling, rest>>

\* clear_cache_action: runner.cache.clear()
ClearCacheAction ==
    /\ cstate = "ready"
    /\ opsLeft > 0
    /\ opsLeft' = opsLeft - 1
    /\ \E saved \in SaveOutcomes :
         /\ AnswerCacheClear(saved)
         /\ history' = Append(history, Call("clear", <<>>, None, saved))
    /\ UNCHANGED <<budget, questions_data, processed_results, is_processing,
                   agent, handler, rpc, runloc, lastUse, cstate, loaded,
                   submitting, tooling, rest>>

\* a cache object before its construction, over any file, and no run
InitCache ==
    /\ InitThreads(1, QuestionLists(0), 0)
    /\ Quiet
    /\ submitsLeft = 0
    /\ file \in StartFiles
    /\ cstate = "unbuilt"
    /\ cache = EmptyMapping
    /\ loaded = EmptyMapping
    /\ history = <<>>
    /\ opsLeft = MaxOps
    /\ gemini_key = TRUE

NextCache ==
    \/ Construct
    \/ \E k \in CacheKeys : CacheGetCall(k)
    \/ \E k \in CacheKeys, a \in AgentAnswers : CacheSetCall(k, a)
    \/ ClearCacheAction

\* -------------------------------------------------------- the tool wrappers
\* what the external dependency of a call does: it answers; it answers with
\* a non-2xx status; it times out; it raises (connection, library error); it
\* answers 2xx with a body the wrapper cannot use
DepOutcomes == {"ok", "non2xx", "timeout", "raises", "garbled"}
\* what the Google request of the search tool does: also a 200 answer whose
\* payload holds an error, and one that holds no items
SearchOutcomes == DepOutcomes \cup {"api_error", "no_items"}
\* what the DuckDuckGo fallback of the search tool does
FallbackOutcomes == {"ok", "raises"}
\* forward returns a string, or an exception leaves forward
Returns(value) == [raised |-> FALSE, value |-> value]
Raises == [raised |-> TRUE, value |-> None]

\* try: sympify, simplify; except (SympifyError, Exception)
MathSolver(dep) ==
    IF dep = "ok" THEN Returns("result") ELSE Returns("Math error: e")
\* try: the string operations; except Exception
TextPreprocesser(dep) ==
    IF dep = "ok" THEN Returns("text") ELSE Returns("Text processing error: e")
\* a call of forward: the requests it made and how it ended
Ran(sent, result) == [sent |-> sent, result |-> result]
\* try: DuckDuckGoSearchTool().forward(query); except Exception
Fallback(sent, ddg, found, failed) ==
    Ran(Append(sent, "duckduckgo"),
        IF ddg = "ok" THEN Returns(found) ELSE Returns(failed))

\* a search that asks DuckDuckGo as well when Google found no items
GoogleSearchRunAsksBoth(has_keys, dep, ddg) ==
    IF ~has_keys
    THEN Fallback(<<>>, ddg, "DuckDuckGo Search Results", "Search unavailable: e")
    ELSE IF dep = "non2xx"
    THEN Fallback(<<"google">>, ddg, "DuckDuckGo Search Results (Google API error)",
                  "Google Search API error: status")
    ELSE IF dep = "api_error"
    THEN Fallback(<<"google">>, ddg, "DuckDuckGo Search Results (Google API error)",
                  "Google Search API error: message")
    ELSE IF dep \in {"timeout", "raises"}
    THEN Fallback(<<"google">>, ddg, "DuckDuckGo Search Results (network error)",
                  "Search unavailable: e")
    ELSE IF dep = "garbled" THEN Ran(<<"google">>, Returns("Search error: e"))
    ELSE IF dep = "no_items"
    THEN Fallback(<<"google">>, ddg, "DuckDuckGo Search Results",
                  "No Google results found.")
    ELSE Ran(<<"google">>, Returns("Google Search Results"))
\* GoogleSearchTool.forward: without both keys the DuckDuckGo fallback; else
\* one Google request, with the fallback on a non-200 status, on an error in
\* the payload and on a RequestException (a refused or broken connection, a
\* body that is no JSON); any other exception gives the error string
GoogleSearchRun(has_keys, dep, ddg) ==
    IF ~has_keys
    THEN Fallback(<<>>, ddg, "DuckDuckGo Search Results", "Search unavailable: e")
    ELSE IF dep = "non2xx"
    THEN Fallback(<<"google">>, ddg, "DuckDuckGo Search Results (Google API error)",
                  "Google Search API error: status")
    ELSE IF dep = "api_error"
    THEN Fallback(<<"google">>, ddg, "DuckDuckGo Search Results (Google API error)",
                  "Google Search API error: message")
    ELSE IF dep \in {"timeout", "raises"}
    THEN Fallback(<<"google">>, ddg, "DuckDuckGo Search Results (network error)",
                  "Search unavailable: e")
    ELSE IF dep = "garbled" THEN Ran(<<"google">>, Returns("Search error: e"))
    ELSE IF dep = "no_items" THEN Ran(<<"google">>, Returns("No Google results found."))
    ELSE Ran(<<"google">>, Returns("Google Search Results"))
\* what GoogleSearchTool.forward returns
GoogleSearchTool(has_keys, dep, ddg) == GoogleSearchRun(has_keys, dep, ddg).result
\* results = wikipedia.search(query), outside any try
WikipediaTitleFinder(dep) ==
    IF dep = "ok" THEN Returns("titles") ELSE Raises
\* try: wikipedia.page; except DisambiguationError, PageError,
\* WikipediaException, Exception, the inner retries under a bare except
WikipediaContentFetcher(dep) ==
    IF dep = "ok" THEN Returns("page content")
    ELSE IF dep = "garbled" THEN Returns("Page not found and search failed.")
    ELSE Returns("Wikipedia error: e")
\* the key check, then try: download, generate_content; except Exception
FileAttachmentQueryTool(has_keys, dep) ==
    IF ~has_keys THEN Returns("File analysis requires GOOGLE_API_KEY")
    ELSE IF dep = "ok" THEN Returns("response text")
    ELSE IF dep = "non2xx" THEN Returns("Failed to download file: status")
    ELSE Returns("File analysis error: e")
\* the key check, then try: the POST; except Exception
GeminiVideoQA(has_keys, dep) ==
    IF ~has_keys THEN Returns("Video analysis requires GOOGLE_API_KEY")
    ELSE IF dep = "ok" THEN Returns("parts text")
    ELSE IF dep = "non2xx" THEN Returns("Video analysis error status")
    ELSE Returns("Video analysis error: e")
\* string operations only: no external dependency
RiddleSolver(dep) == Returns("analysis")
\* try: requests.get with timeout, raise_for_status, the conversion; except
\* RequestException; except Exception
WebPageFetcher(dep) ==
    IF dep = "ok" THEN Returns("content")
    ELSE IF dep = "garbled" THEN Returns("Error processing webpage: e")
    ELSE Returns("Network error fetching url: e")

Tools == {"MathSolver", "TextPreprocesser", "GoogleSearchTool",
          "WikipediaTitleFinder", "WikipediaContentFetcher",
          "FileAttachmentQueryTool", "GeminiVideoQA", "RiddleSolver",
          "WebPageFetcher"}

\* tool.forward for a call
Forward(call) ==
    CASE call.tool = "MathSolver" -> MathSolver(call.dep)
      [] call.tool = "TextPreprocesser" -> TextPreprocesser(call.dep)
      [] call.tool = "GoogleSearchTool" ->
             GoogleSearchTool(call.has_keys, call.dep, call.ddg)
      [] call.tool = "WikipediaTitleFinder" -> WikipediaTitleFinder(call.dep)
      [] call.tool = "WikipediaContentFetcher" -> WikipediaContentFetcher(call.dep)
      [] call.tool = "FileAttachmentQueryTool" ->
             FileAttachmentQueryTool(call.has_keys, call.dep)
      [] call.tool = "GeminiVideoQA" -> GeminiVideoQA(call.has_keys, call.dep)
      [] call.tool = "RiddleSolver" -> RiddleSolver(call.dep)
      [] call.tool = "WebPageFetcher" -> WebPageFetcher(call.dep)

\* the search requests of a call
Sent(call) ==
    IF call.tool = "GoogleSearchTool"
    THEN GoogleSearchRun(call.has_keys, call.dep, call.ddg).sent
    ELSE <<>>

\* the agent calls a tool
ToolForward(tool, has_keys, dep, ddg) ==
    /\ tool # "GoogleSearchTool" => dep \in DepOutcomes
    /\ tool_call' = [tool |-> tool, has_keys |-> has_keys, dep |-> dep, ddg |-> ddg]
    /\ tool_result' = Forward(tool_call')
    /\ tool_sent' = Sent(tool_call')
    /\ UNCHANGED <<budget, shared, handler, rpc, runloc, lastUse, cacheapi,
                   submitting, rest>>

\* no handler running, no run: tool calls only
InitTools ==
    /\ InitThreads(1, QuestionLists(0), 0)
    /\ Quiet
    /\ file = ValidFile(EmptyMapping)
    /\ cache = EmptyMapping
    /\ cstate = "ready"
    /\ loaded = EmptyMapping
    /\ history = <<>>
    /\ opsLeft = 0
    /\ submitsLeft = 0
    /\ gemini_key = TRUE

NextTools ==
    \E tool \in Tools, has_keys \in BOOLEAN, dep \in SearchOutcomes,
       ddg \in FallbackOutcomes : ToolForward(tool, has_keys, dep, ddg)

\* ------------------------------------------------- agent.py as a script
\* the number of test cases of evaluate_random_questions
NumTests == 4
\* command-line arguments; a string is the sequence of its pieces
Words == {"-h", "--help", "dev", "what", ""}
ArgLists == UNION {[1 .. n -> Words] : n \in 0 .. MaxArgs}

\* " ".join(args)
RECURSIVE Join(_)
Join(args) ==
    IF Len(args) = 0 THEN <<>>
    ELSE IF Len(args) = 1 THEN <<args[1]>>
    ELSE <<args[1], " ">> \o Join(Tail(args))
\* the string "dev"
Dev == <<"dev">>

\* a usage test that looks at the first argument only
WantsUsageFirstOnly(args) == args # <<>> /\ args[1] \in {"-h", "--help"}
\* not args or args[0] in {"-h", "--help"}
WantsUsage(args) == args = <<>> \/ args[1] \in {"-h", "--help"}

\* the process at start-up, the page's state untouched
InitCli ==
    /\ InitThreads(1, QuestionLists(0), 0)
    /\ file = ValidFile(EmptyMapping)
    /\ cache = EmptyMapping
    /\ cstate = "ready"
    /\ loaded = EmptyMapping
    /\ history = <<>>
    /\ opsLeft = 0
    /\ submitsLeft = 0
    /\ gemini_key \in BOOLEAN
    /\ argv \in ArgLists
    /\ cli = CliAt("main")
    /\ NoRace
    /\ NoFetch

\* what no step of the script touches
CliFrame == UNCHANGED <<budget, shared, handler, rpc, runloc, lastUse, cacheapi,
                        submitting, tooling, environ, argv, racing, fetching>>

\* the head of __main__: usage and sys.exit(0), or the joined question
MainArgs ==
    /\ cli.pc = "main"
    /\ cli' = IF WantsUsage(argv)
              THEN [cli EXCEPT !.pc = "exited", !.usage = TRUE, !.status = 0]
              ELSE [cli EXCEPT !.pc = "construct", !.q = Join(argv)]
    /\ CliFrame

\* agent = JarvisAgent()
MainAgent ==
    /\ cli.pc = "construct"
    /\ \E full \in FullAgentOutcomes :
         /\ full = "raises" => gemini_key
         /\ cli' = [cli EXCEPT !.pc = "run", !.built = JarvisAgent(gemini_key, full)]
    /\ CliFrame

\* agent.evaluate_random_questions(): every test case is put to the agent
\* and _print_test_summary prints the count of correct answers
MainDev ==
    /\ cli.pc = "run"
    /\ cli.q = Dev
    /\ \E correct \in 0 .. NumTests :
         cli' = [cli EXCEPT !.pc = "exited", !.status = 0,
                            !.summary = <<correct, NumTests>>]
    /\ CliFrame

\* print(agent(q)): __call__ returns a string for every string question
MainQuestion ==
    /\ cli.pc = "run"
    /\ cli.q # Dev
    /\ \E answer \in AgentOutcomesOf(cli.built) \cap AgentAnswers :
         cli' = [cli EXCEPT !.pc = "exited", !.status = 0,
                            !.printed = Append(@, answer)]
    /\ CliFrame

NextCli == MainArgs \/ MainAgent \/ MainDev \/ MainQuestion

\* ------------------------------------ workers inside AnswerCache.set
\* The pool workers of one batch that have their answers call cache.set with
\* no lock: the assignment to the dict is one step, and _save_cache is four:
\* open(CACHE_FILE, 'w') truncates the file; json.dump begins to iterate the
\* dict; it ends, with the text in the file object's buffer, or raises
\* RuntimeError when the dict changed size meanwhile (caught by _save_cache);
\* the with block closes the file object, which writes its buffer at offset
\* 0 of the file.  Texts are measured in units: one for the braces, two for
\* an entry and one more for a non-empty answer.
AnswerLen(a) == IF a = EmptyAnswer THEN 0 ELSE 1
RECURSIVE EntriesLen(_, _)
EntriesLen(m, keys) ==
    IF keys = {} THEN 0
    ELSE LET k == CHOOSE x \in keys : TRUE
         IN  2 + AnswerLen(m[k]) + EntriesLen(m, keys \ {k})
\* the length of json.dump's text for a mapping
TextLen(m) == 1 + EntriesLen(m, DOMAIN m)
TextBuffer(m) == [kind |-> "text", mapping |-> m, len |-> TextLen(m)]
PartialBuffer(n) == [kind |-> "partial", mapping |-> EmptyMapping, len |-> n]

\* a close that leaves a longer file as it is
FlushKeepsLonger(buf, f, len) ==
    IF buf.len < len THEN [file |-> f, len |-> len]
    ELSE [file |-> IF buf.kind = "text" THEN ValidFile(buf.mapping)
                   ELSE BadFile("corrupt"),
          len |-> buf.len]
\* closing the file object: its buffer replaces the head of the file, which
\* is the whole file unless another file object wrote a longer text since
\* the truncation
Flush(buf, f, len) ==
    [file |-> IF buf.kind = "text" /\ buf.len >= len THEN ValidFile(buf.mapping)
              ELSE BadFile("corrupt"),
     len |-> Max2(buf.len, len)]

\* the answers the workers store
SetAnswers == {NormalAnswer, EmptyAnswer}

InitRace ==
    /\ InitThreads(1, QuestionLists(0), 0)
    /\ \E m \in StartCaches : file = ValidFile(m)
    /\ cache = LoadCache(file).mapping
    /\ cstate = "ready"
    /\ loaded = cache
    /\ history = <<>>
    /\ opsLeft = 0
    /\ submitsLeft = 0
    /\ gemini_key = TRUE
    /\ NoCli
    /\ NoFetch
    /\ wpc = [w \in SetterIds |-> "set"]
    /\ wans \in [SetterIds -> SetAnswers]
    /\ wseen = [w \in SetterIds |-> {}]
    /\ wbuf = [w \in SetterIds |-> NoBuffer]
    /\ flen = TextLen(cache)
    /\ closes = <<>>

RaceFrame == UNCHANGED <<budget, questions_data, processed_results, is_processing,
                         agent, handler, rpc, runloc, lastUse, cacheapi,
                         submitting, tooling, environ, cmdline, fetching, wans>>

\* self._cache[task_id] = answer
SetAssign(w) ==
    /\ wpc[w] = "set"
    /\ cache' = CachePut(cache, TaskId(w), wans[w])
    /\ wpc' = [wpc EXCEPT ![w] = "open"]
    /\ UNCHANGED <<file, wseen, wbuf, flen, closes>>
    /\ RaceFrame

\* open(CACHE_FILE, 'w')
SaveOpen(w) ==
    /\ wpc[w] = "open"
    /\ file' = BadFile("corrupt")
    /\ flen' = 0
    /\ wpc' = [wpc EXCEPT ![w] = "dump"]
    /\ UNCHANGED <<cache, wseen, wbuf, closes>>
    /\ RaceFrame

\* json.dump begins to iterate self._cache
DumpBegin(w) ==
    /\ wpc[w] = "dump"
    /\ wseen' = [wseen EXCEPT ![w] = DOMAIN cache]
    /\ wpc' = [wpc EXCEPT ![w] = "dumping"]
    /\ UNCHANGED <<cache, file, wbuf, flen, closes>>
    /\ RaceFrame

\* json.dump ends: the text of the dict, or RuntimeError after some of it
DumpEnd(w) ==
    /\ wpc[w] = "dumping"
    /\ IF DOMAIN cache = wseen[w]
       THEN wbuf' = [wbuf EXCEPT ![w] = TextBuffer(cache)]
       ELSE \E n \in 1 .. TextLen(cache) - 1 :
                wbuf' = [wbuf EXCEPT ![w] = PartialBuffer(n)]
    /\ wpc' = [wpc EXCEPT ![w] = "close"]
    /\ UNCHANGED <<cache, file, wseen, flen, closes>>
    /\ RaceFrame

\* the with block closes the file object and set returns
SaveClose(w) ==
    /\ wpc[w] = "close"
    /\ file' = Flush(wbuf[w], file, flen).file
    /\ flen' = Flush(wbuf[w], file, flen).len
    /\ closes' = Append(closes, w)
    /\ wpc' = [wpc EXCEPT ![w] = "returned"]
    /\ UNCHANGED <<cache, wseen, wbuf>>
    /\ RaceFrame

NextRace ==
    \/ \E w \in SetterIds : SetAssign(w)
    \/ \E w \in SetterIds : SaveOpen(w)
    \/ \E w \in SetterIds : DumpBegin(w)
    \/ \E w \in SetterIds : DumpEnd(w)
    \/ \E w \in SetterIds : SaveClose(w)

\* ------------------------------------------------------------ specification
Next ==
    \/ \E c \in CallerIds, u \in BOOLEAN : StartProcessing(c, u)
    \/ \E c \in CallerIds : ProcessQuestionsAsyncCheck(c)
    \/ \E c \in CallerIds : ProcessQuestionsAsyncStart(c)
    \/ \E c \in CallerIds : RunBegin(c)
    \/ \E c \in CallerIds : SubmitBatch(c)
    \/ \E c \in CallerIds, i \in 1 .. MaxN : WorkerStart(c, i)
    \/ \E c \in CallerIds, i \in 1 .. MaxN : AgentReturn(c, i)
    \/ \E c \in CallerIds : BeginCollect(c)
    \/ \E c \in CallerIds, i \in 1 .. MaxN : Collect(c, i)
    \/ \E c \in CallerIds : RunDone(c)

Spec == Init /\ [][Next]_vars
SpecBatch == InitBatch /\ [][Next]_vars
SpecSeq == InitSeq /\ [][Next]_vars
\* the calls of one AnswerCache object, one after the other
SpecCache == InitCache /\ [][NextCache]_vars

\* fetched lists of the whole-application specification: well-formed, or
\* with one record that lacks its task_id
AppLists ==
    QuestionLists(MaxAppQuestions) \cup
    {Garbled(QuestionList(n), n) : n \in 1 .. MaxAppQuestions}

\* the whole application with one start handler: runs, cache clearing and
\* submissions
InitApp ==
    /\ InitThreads(1, AppLists, MaxAppRuns)
    /\ Quiet
    /\ \E m \in StartCaches : file = ValidFile(m)
    /\ cache = LoadCache(file).mapping
    /\ cstate = "ready"
    /\ loaded = cache
    /\ history = <<>>
    /\ opsLeft = MaxAppOps
    /\ submitsLeft = MaxSubmits
    /\ gemini_key = TRUE

NextApp ==
    \/ Next
    \/ \E c \in CallerIds : RunRaise(c)
    \/ ClearCacheAction
    \/ \E s \in SubmitterIds, profile \in {None, "profile"} : SubmitAnswersCheck(s, profile)
    \/ \E s \in SubmitterIds : SubmitAnswersSet(s)
    \/ \E s \in SubmitterIds : SubmitAnswersReturn(s)

\* ------------------------------------------------- fetch_questions_action
\* how the GET of the questions ends: a 2xx answer with a list, one with an
\* empty list, a non-2xx status (raise_for_status), a network error or
\* timeout, a body that cannot be used
FetchOutcomes == {"ok", "empty", "non2xx", "network", "garbled"}
\* the lists the service can answer with
ServedLists == AppLists \ {<<>>}

\* fetch_questions: success, the list and the message
FetchQuestions(outcome, list) ==
    IF outcome = "ok"
    THEN [success |-> TRUE, questions_data |-> list,
          message |-> <<"Successfully fetched questions", Len(list)>>]
    ELSE [success |-> FALSE, questions_data |-> <<>>,
          message |-> IF outcome = "empty" THEN "Fetched questions list is empty."
                      ELSE IF outcome \in {"non2xx", "network"}
                      THEN "Error fetching questions: e"
                      ELSE "Unexpected error fetching questions: e"]

\* a handler that stores whatever fetch_questions returned
StoredAlways(got, current) == got.questions_data
\* if success: app_state.questions_data = questions_data
Stored(got, current) == IF got.success THEN got.questions_data ELSE current

\* fetch_questions_action: the GET, the assignment and what it returns
FetchQuestionsAction(outcome, list) ==
    /\ fetchesLeft > 0
    /\ fetchesLeft' = fetchesLeft - 1
    /\ LET got == FetchQuestions(outcome, list)
       IN  /\ questions_data' = Stored(got, questions_data)
           /\ fetched' = IF got.success
                         THEN FetchReturn(got.message, Len(got.questions_data), TRUE)
                         ELSE FetchReturn(got.message, 0, FALSE)
    /\ UNCHANGED <<budget, processed_results, is_processing, agent, cache, file,
                   handler, rpc, runloc, lastUse, cacheapi, submitting, tooling,
                   environ, cmdline, racing>>

\* the page as it starts: nothing fetched
InitFetch ==
    /\ InitThreads(1, {<<>>}, MaxAppRuns)
    /\ \E m \in StartCaches : file = ValidFile(m)
    /\ cache = LoadCache(file).mapping
    /\ cstate = "ready"
    /\ loaded = cache
    /\ history = <<>>
    /\ opsLeft = 0
    /\ submitsLeft = 0
    /\ gemini_key = TRUE
    /\ NoCli /\ NoRace
    /\ fetched = FetchReturn(None, 0, FALSE)
    /\ fetchesLeft = MaxFetches

NextFetch ==
    \/ Next
    \/ \E c \in CallerIds : RunRaise(c)
    \/ \E outcome \in FetchOutcomes, list \in ServedLists :
         FetchQuestionsAction(outcome, list)

SpecApp == InitApp /\ [][NextApp]_vars
\* the tool wrappers, call by call
SpecTools == InitTools /\ [][NextTools]_vars
SpecCli == InitCli /\ [][NextCli]_vars
SpecRace == InitRace /\ [][NextRace]_vars
\* the page from its start: fetches, and the runs of one start handler
SpecFetch == InitFetch /\ [][NextFetch]_vars

\* a step of the run thread of c or of one of its pool workers
RunStep(c) ==
    \/ RunBegin(c) \/ SubmitBatch(c) \/ BeginCollect(c) \/ RunDone(c)
    \/ \E i \in 1 .. MaxN : WorkerStart(c, i) \/ AgentReturn(c, i) \/ Collect(c, i)

\* started threads keep being scheduled and every agent invocation ends
SpecSeqFair == SpecSeq /\ \A c \in CallerIds : WF_vars(RunStep(c))

\* a step of a submitting thread past the checks
SubmitStep(s) == SubmitAnswersSet(s) \/ SubmitAnswersReturn(s)

\* started threads keep being scheduled, every agent invocation and every
\* POST ends
SpecAppFair ==
    /\ SpecApp
    /\ \A c \in CallerIds : WF_vars(RunStep(c) \/ RunRaise(c))
    /\ \A s \in SubmitterIds : WF_vars(SubmitStep(s))

TypeOK ==
    /\ is_processing \in BOOLEAN
    /\ runsLeft \in 0 .. 10
    /\ faultsLeft \in 0 .. MaxFaults
    /\ gemini_key \in BOOLEAN
    /\ agent \in AgentKinds \cup {None}
    /\ \A c \in CallerIds : hpc[c] \in {"idle", "pqa", "set"}
    /\ \A c \in CallerIds :
         rpc[c] \in {"none", "start", "batch", "submitted", "collect", "return",
                    "raising"}

\* ------------------------------------------------------------- properties
\* process_questions_parallel of run c has returned results[c]
Returned(c) == rpc[c] = "return"
\* initialize_agent of run c returned True
Initialized(c) == log[c] # <<>> /\ log[c][1].kind = "start"
\* the records of a list that carry task_id
RecordsOf(list, task_id) == {k \in 1 .. Len(list) : list[k].task_id = task_id}
\* the answer a finished run gave for task_id, None when it has no record
AnswerIn(list, task_id) ==
    IF RecordsOf(list, task_id) = {} THEN None
    ELSE list[CHOOSE k \in RecordsOf(list, task_id) : TRUE].submitted_answer
\* one record per input item, with the item's task_id and question
OneRecordPerItem(c) ==
    /\ Len(results[c]) = Len(input[c])
    /\ \A i \in 1 .. Len(input[c]) :
         /\ Cardinality(RecordsOf(results[c], input[c][i].task_id)) = 1
         /\ \A k \in RecordsOf(results[c], input[c][i].task_id) :
              results[c][k].question = input[c][i].question

C2_FailureIsolated ==
    \A c \in CallerIds :
        /\ \A i \in DOMAIN fut[c] : fut[c][i].ninv <= 1
        /\ (Returned(c) /\ \E i \in DOMAIN fut[c] : fut[c][i].out = Raise) =>
              /\ OneRecordPerItem(c)
              /\ \A i \in DOMAIN fut[c] :
                   LET answer == AnswerIn(results[c], input[c][i].task_id)
                   IN  IF fut[c][i].out = Raise
                       THEN answer \in ErrorMarkers /\ fut[c][i].ninv = 1
                       ELSE \/ fut[c][i].ninv = 1 /\ answer = fut[c][i].out
                            \/ /\ fut[c][i].ninv = 0
                               /\ ruse[c] /\ fut[c][i].present /\ Truthy(answer)

\* C2, termination: under fair scheduling a run in which an agent invocation
\* raised goes on to return one record per item.
C2_Terminates ==
    \A c \in CallerIds :
        (\E i \in DOMAIN fut[c] : fut[c][i].out = Raise)
            ~> (Returned(c) /\ OneRecordPerItem(c))

C2_Witness ==
    \E c \in CallerIds :
        /\ Returned(c)
        /\ Len(input[c]) > BATCH_SIZE
        /\ fut[c][3].out = Raise
        /\ fut[c][4].ninv = 1 /\ fut[c][4].out = NormalAnswer
        /\ fut[c][Len(input[c])].ninv = 1

\* the run that is returning follows a use_cache run that left records
SecondCachedRun(c) ==
    /\ Returned(c) /\ ruse[c]
    /\ lastUse
    /\ processed_results # <<>>

\* C3 as stated: the second of two use_cache runs invokes the agent for no item
\* and repeats every answer of the first.
C3_SecondRunAllCached ==
    \A c \in CallerIds :
        SecondCachedRun(c) =>
            \A i \in DOMAIN fut[c] :
                /\ fut[c][i].ninv = 0
                /\ fut[c][i].ans = AnswerIn(processed_results, input[c][i].task_id)

\* C3 amended: the second of two use_cache runs invokes the agent exactly for
\* the task_ids whose first-run answer was an error string or empty; for every
\* other task_id it makes no invocation and repeats the first run's answer.
C3_SecondRunCachedAnswers ==
    \A c \in CallerIds :
        SecondCachedRun(c) =>
            \A i \in DOMAIN fut[c] :
                LET first == AnswerIn(processed_results, input[c][i].task_id)
                IN  IF first \in ErrorMarkers \/ first = ""
                    THEN fut[c][i].ninv = 1
                    ELSE fut[c][i].ninv = 0 /\ fut[c][i].ans = first

C3_Witness ==
    \E c \in CallerIds :
        /\ SecondCachedRun(c)
        /\ \E i \in DOMAIN fut[c] :
             /\ AnswerIn(processed_results, input[c][i].task_id) = NormalAnswer
             /\ fut[c][i].ninv = 0
             /\ fut[c][i].ans = NormalAnswer

\* C4 as stated: an item looked up with use_cache whose task_id is a key of the
\* mapping, whatever is stored, is answered without an agent invocation.
C4_KeyPresentNoInvocation ==
    \A c \in CallerIds : \A i \in DOMAIN fut[c] :
        fut[c][i].present => fut[c][i].ninv = 0

C6_OneRunInFlight == Cardinality({c \in CallerIds : rpc[c] # "none"}) <= 1

\* C7 as stated: at most min(BATCH_SIZE, MAX_WORKERS) process_question calls
\* have started and not returned, in the whole process.
C7_InFlightBound ==
    Cardinality({ci \in CallerIds \X (1 .. MaxN) :
                   ci[2] \in DOMAIN fut[ci[1]] /\ fut[ci[1]][ci[2]].st = "agent"})
        <= Min2(BATCH_SIZE, MAX_WORKERS)

\* C8: the items submitted and not collected are one slice of at most
\* BATCH_SIZE consecutive input items starting at a multiple of BATCH_SIZE, and
\* an item is submitted only when every item of the earlier slices has
\* finished and has its record in the results.
C8_BatchBarrier ==
    \A c \in CallerIds : \A i \in DOMAIN fut[c] :
        fut[c][i].st # "none" =>
            /\ \A j \in DOMAIN fut[c] :
                 (j - 1) \div BATCH_SIZE < (i - 1) \div BATCH_SIZE =>
                     /\ fut[c][j].st = "collected"
                     /\ RecordsOf(results[c], input[c][j].task_id) # {}
            /\ \A j \in DOMAIN fut[c] :
                 (j - 1) \div BATCH_SIZE = (i - 1) \div BATCH_SIZE => fut[c][j].st # "none"

C8_Witness ==
    \E c \in CallerIds :
        /\ Len(input[c]) > BATCH_SIZE
        /\ fut[c][BATCH_SIZE + 1].st = "agent"
        /\ Len(results[c]) = BATCH_SIZE

\* the per-item reports of run c
ItemReports(c) == SelectSeq(log[c], LAMBDA r : r.kind = "item")

\* C9: while a run is collecting, there is one per-item report for every
\* collected item, cache hit, success or failure, and the k-th carries
\* completed = k and percent = k / total * 100.
C9_ProgressPerItem ==
    \A c \in CallerIds :
        rpc[c] \in {"batch", "submitted", "collect", "return"} =>
            /\ Len(ItemReports(c)) =
                 Cardinality({i \in DOMAIN fut[c] : fut[c][i].st = "collected"})
            /\ Len(ItemReports(c)) = Len(results[c])
            /\ \A k \in 1 .. Len(ItemReports(c)) :
                 /\ ItemReports(c)[k].completed = k
                 /\ ItemReports(c)[k].percent = <<k * 100, Len(input[c])>>

C9_Witness ==
    \E c \in CallerIds :
        /\ Returned(c)
        /\ Len(ItemReports(c)) = Len(input[c])
        /\ \E i, j, k \in DOMAIN fut[c] :
             /\ fut[c][i].ninv = 0 /\ fut[c][i].st = "collected"
             /\ fut[c][j].out = NormalAnswer
             /\ fut[c][k].out = Raise

\* run c collects item i in this step
Collects(c, i) ==
    /\ i \in DOMAIN fut[c]
    /\ fut[c][i].st = "finished"
    /\ i \in DOMAIN fut'[c]
    /\ fut'[c][i].st = "collected"

C11_InitFailureAborts ==
    \A c \in CallerIds :
        /\ (rpc[c] \in {"batch", "submitted", "collect", "return"}
                /\ log[c][1].kind = "init_error") =>
              /\ rpc[c] = "return"
              /\ results[c] = <<>>
              /\ \A i \in DOMAIN fut[c] : fut[c][i] = NoFuture
              /\ \A k \in 1 .. Len(log[c]) : log[c][k].kind # "item"
        /\ (rpc[c] = "return" /\ Len(results[c]) < Len(input[c])) =>
              log[c][1].kind = "init_error"

C11_Witness ==
    \E c \in CallerIds :
        /\ rpc[c] = "return"
        /\ log[c][1].kind = "init_error"
        /\ Len(input[c]) > BATCH_SIZE
        /\ results[c] = <<>>

\* the call made last
LastCall == history[Len(history)]
\* the answer of the most recent set(task_id, .) among the calls h that
\* follows the last clear() of h: None when a clear() follows every such set,
\* base when h has neither
RECURSIVE LatestSet(_, _, _)
LatestSet(h, task_id, base) ==
    IF h = <<>> THEN base
    ELSE LET last == h[Len(h)]
         IN  IF last.op = "clear" THEN None
             ELSE IF last.op = "set" /\ last.task_id = task_id THEN last.answer
             ELSE LatestSet(SubSeq(h, 1, Len(h) - 1), task_id, base)
\* the step is a get call
GetStep == Len(history') = Len(history) + 1 /\ history'[Len(history')].op = "get"

\* C12 as stated: every get returned the answer of the most recent set of its
\* task_id that follows the last clear(), and absent when there is none.
C12_LastWriteWins ==
    \A n \in 1 .. Len(history) :
        history[n].op = "get" =>
            history[n].answer =
                LatestSet(SubSeq(history, 1, n - 1), history[n].task_id, None)

\* C12 amended: every get returned the answer of the most recent set of its
\* task_id that follows the last clear(); when no set of it and no clear()
\* came before, the entry loaded from the file at construction, absent if the
\* file had none; and a get changes neither the mapping nor the file.
C12_LastWriteWinsOverLoaded ==
    /\ [](\A n \in 1 .. Len(history) :
            history[n].op = "get" =>
                history[n].answer =
                    LatestSet(SubSeq(history, 1, n - 1), history[n].task_id,
                              IF history[n].task_id \in DOMAIN loaded
                              THEN loaded[history[n].task_id] ELSE None))
    /\ [][GetStep => UNCHANGED <<cache, file>>]_vars

C12_Witness ==
    /\ Len(history) = 3
    /\ history[1].op = "set" /\ history[1].answer = NormalAnswer
    /\ history[2].op = "set" /\ history[2].answer = InternalError
    /\ history[3].op = "get" /\ history[3].answer = InternalError
    /\ history[1].task_id = history[3].task_id
    /\ history[2].task_id = history[3].task_id

\* C13: when a set has returned and its write succeeded, the file holds the
\* complete mapping: the new entry and every entry loaded or set before it
\* and not cleared since, whether or not an earlier write had failed.
C13_SetRewritesFile ==
    (history # <<>> /\ LastCall.op = "set" /\ LastCall.saved = "written") =>
        /\ file.state = "valid"
        /\ file.content = cache
        /\ LastCall.task_id \in DOMAIN file.content
        /\ file.content[LastCall.task_id] = LastCall.answer
        /\ \A k \in CacheKeys :
             (IF k \in DOMAIN file.content THEN file.content[k] ELSE None) =
                 LatestSet(history, k, IF k \in DOMAIN loaded THEN loaded[k] ELSE None)

C13_Witness ==
    /\ Len(history) = 2
    /\ history[1].op = "set" /\ history[1].saved = "open_failed"
    /\ history[2].op = "set" /\ history[2].saved = "written"
    /\ history[1].task_id # history[2].task_id
    /\ DOMAIN file.content = {history[1].task_id, history[2].task_id}

\* C14 as stated: when clear() has returned, get is absent for every task_id
\* and a cache loaded afresh from the file is empty.
C14_ClearPersistsEmpty ==
    (history # <<>> /\ LastCall.op = "clear") =>
        /\ \A k \in CacheKeys : CacheGet(cache, k) = None
        /\ LoadCache(file).mapping = EmptyMapping

\* C14 amended: when clear() has returned, the mapping is empty and get is
\* absent for every task_id; when the write of the file succeeded the file
\* holds the empty mapping and a cache loaded afresh from it is empty.
C14_ClearEmptiesMapping ==
    (history # <<>> /\ LastCall.op = "clear") =>
        /\ cache = EmptyMapping
        /\ \A k \in CacheKeys : CacheGet(cache, k) = None
        /\ LastCall.saved = "written" =>
              /\ file = [state |-> "valid", content |-> EmptyMapping]
              /\ LoadCache(file).mapping = EmptyMapping

C14_Witness ==
    /\ Len(history) = 2
    /\ loaded # EmptyMapping
    /\ history[1].op = "set" /\ history[1].saved = "written"
    /\ history[2].op = "clear" /\ history[2].saved = "written"
    /\ file.content = EmptyMapping

\* C15: constructing the cache never raises; over a missing, unreadable or
\* unparseable file the mapping starts empty, over a valid file it starts as
\* the file's content.
C15_LoadNeverFails ==
    /\ cstate # "raised"
    /\ (cstate = "ready" /\ history = <<>>) =>
          cache = (IF file.state = "valid" THEN file.content ELSE EmptyMapping)

C15_Witness ==
    /\ cstate = "ready"
    /\ history = <<>>
    /\ file.state = "corrupt"
    /\ cache = EmptyMapping

\* the step is the return of the process_question call of item i of run c
\* after an agent invocation
ReturnStep(c, i) ==
    /\ i \in DOMAIN fut[c] /\ fut[c][i].st = "agent"
    /\ i \in DOMAIN fut'[c] /\ fut'[c][i].st = "finished"
\* the step is a clear() call
ClearStep == Len(history') = Len(history) + 1 /\ history'[Len(history')].op = "clear"
\* the step's write of the file did not succeed
SaveFailed == file' # [state |-> "valid", content |-> cache']

\* C16 as stated: a set or clear whose write of the file fails returns
\* normally with the mapping mutated and the file as it was before, and the
\* item's record carries the agent's answer.
C16_SaveFailureSwallowed ==
    [][/\ \A c \in CallerIds : \A i \in 1 .. MaxN :
            (ReturnStep(c, i) /\ ruse[c] /\ fut'[c][i].out # Raise) =>
                /\ CacheGet(cache', input[c][i].task_id) = fut'[c][i].out
                /\ fut'[c][i].ans = fut'[c][i].out
                /\ SaveFailed => file' = file
       /\ ClearStep => (cache' = EmptyMapping /\ (SaveFailed => file' = file))
      ]_vars

\* C16 amended: a set or clear whose write of the file fails returns normally
\* with the mapping mutated, and the item's record carries the agent's answer;
\* the file is as it was before when it could not be opened, and is left
\* truncated, no longer parseable, when the write failed after the open.
C16_SaveFailureLeavesFileOrTruncates ==
    [][/\ \A c \in CallerIds : \A i \in 1 .. MaxN :
            (ReturnStep(c, i) /\ ruse[c] /\ fut'[c][i].out # Raise) =>
                /\ CacheGet(cache', input[c][i].task_id) = fut'[c][i].out
                /\ fut'[c][i].ans = fut'[c][i].out
                /\ SaveFailed => (file' = file \/ file'.state = "corrupt")
       /\ ClearStep =>
            /\ cache' = EmptyMapping
            /\ SaveFailed => (file' = file \/ file'.state = "corrupt")
      ]_vars

C16_Witness ==
    \E c \in CallerIds : \E i \in DOMAIN fut[c] :
        /\ history = <<>>
        /\ ruse[c]
        /\ fut[c][i].st = "collected"
        /\ fut[c][i].out = NormalAnswer
        /\ fut[c][i].ans = NormalAnswer
        /\ CacheGet(cache, input[c][i].task_id) = NormalAnswer
        /\ file.state = "corrupt"

\* C17: under fair scheduling, with every agent invocation and POST ending,
\* is_processing once true becomes false again, whether the run completes,
\* returns early on a failed initialization or raises; is_submitting once
\* true becomes false again, and is false when a submit_answers_action call
\* that posted returns, whatever the POST's outcome.
C17_FlagsReset ==
    /\ is_processing ~> ~is_processing
    /\ is_submitting ~> ~is_submitting
    /\ [][\A s \in SubmitterIds :
             (spc[s] = "post" /\ spc'[s] = "idle") => ~is_submitting']_vars

C17_Witness ==
    \E c \in CallerIds, s \in SubmitterIds :
        /\ rpc[c] = "none" /\ log[c] # <<>>
        /\ ~is_processing
        /\ spc[s] = "idle"
        /\ sreply[s] = "Submission Failed: e"
        /\ ~is_submitting

\* C18 as stated: at most one submission is in flight at any instant.
C18_OneSubmissionInFlight ==
    Cardinality({s \in SubmitterIds : spc[s] = "post"}) <= 1

\* C19 as stated: a run creates no cache entry for an item whose agent
\* invocation raised or ended in the agent's internal error path, and an
\* entry leaves the cache only by a clear().
C19_OnlySuccessCached ==
    [][/\ \A c \in CallerIds : \A i \in 1 .. MaxN :
            (ReturnStep(c, i) /\ fut'[c][i].out \in {Raise, InternalError}) =>
                (input[c][i].task_id \in DOMAIN cache' =>
                    input[c][i].task_id \in DOMAIN cache)
       /\ \A k \in CacheKeys :
            (k \in DOMAIN cache /\ k \notin DOMAIN cache') => ClearStep
      ]_vars

\* C20 as stated: whatever its external dependency does, no tool call ends
\* with an exception leaving forward; it returns a string.
C20_NoExceptionCrossesTools ==
    tool_call.tool # None => (~tool_result.raised /\ tool_result.value # None)

\* C21: without the Gemini key in the environment nothing fails to start:
\* every run that is past initialize_agent was initialized, the agent it runs
\* on is the MockAgent fallback, the cache is built, and a run that returned
\* has one record per input item.
C21_NoKeyRunsOnMockAgent ==
    ~gemini_key =>
        /\ cstate = "ready"
        /\ agent \in {None, "MockAgent"}
        /\ \A c \in CallerIds :
             rpc[c] \notin {"none", "start"} =>
                 /\ Initialized(c)
                 /\ agent = "MockAgent"
                 /\ Returned(c) => OneRecordPerItem(c)

C21_Witness ==
    \E c \in CallerIds :
        /\ ~gemini_key
        /\ Returned(c)
        /\ agent = "MockAgent"
        /\ Len(input[c]) = MaxSeqQuestions
        /\ Len(results[c]) = MaxSeqQuestions

\* the script has ended
Exited == cli.pc = "exited"
\* the three ways the script ends
UsageOutcome ==
    /\ cli.usage /\ cli.status = 0
    /\ cli.built = None /\ cli.summary = None /\ cli.printed = <<>>
DevOutcome ==
    /\ ~cli.usage /\ cli.built \in AgentKinds
    /\ cli.summary # None /\ cli.printed = <<>>
QuestionOutcome ==
    /\ ~cli.usage /\ cli.built \in AgentKinds
    /\ cli.summary = None /\ Len(cli.printed) = 1 /\ cli.q = Join(argv)

AllSet == \A w \in SetterIds : wpc[w] = "returned"
\* a mapping holds the entry worker w stored
Holds(m, w) == TaskId(w) \in DOMAIN m /\ m[TaskId(w)] = wans[w]
\* what a load of the file would give
Persisted == LoadCache(file).mapping

\* C23: set calls of parallel workers are not locked and the race loses
\* writes in the file only: once every call has returned the in-memory
\* mapping holds every worker's entry, while the file is only known to hold,
\* when it can be parsed at all, the entry of the worker that closed it last
\* (the lost write itself is the state C23_Witness).
C23_MappingKeepsFileMayLose ==
    AllSet =>
        /\ \A w \in SetterIds : Holds(cache, w)
        /\ file.state = "valid" => Holds(file.content, closes[Len(closes)])

C23_Witness ==
    /\ AllSet
    /\ \E w \in SetterIds : ~Holds(Persisted, w)
    /\ \A w \in SetterIds : Holds(cache, w)

\* C24: a run with use_cache off leaves the answer cache as it is: no step
\* taken while the run is in progress changes the in-memory mapping or the
\* cache file, whatever the input list and whichever invocations fail.
C24_BypassLeavesCache ==
    [][\A c \in CallerIds :
          (rpc[c] # "none" /\ ~ruse[c]) => UNCHANGED <<cache, file>>]_vars

C24_Witness ==
    \E c \in CallerIds :
        /\ Returned(c) /\ ~ruse[c]
        /\ Len(results[c]) = MaxSeqQuestions
        /\ \E k \in 1 .. Len(results[c]) :
             /\ results[c][k].submitted_answer = NormalAnswer
             /\ results[c][k].task_id \notin DOMAIN cache
        /\ \E k \in 1 .. Len(results[c]) :
             results[c][k].submitted_answer = AgentError

\* the requests of the last call that went to a service
SentTo(service) == {n \in 1 .. Len(tool_sent) : tool_sent[n] = service}
\* the last call was a search with this outcome of the Google request
Searched == tool_call.tool = "GoogleSearchTool"
\* the outcomes of the Google request after which the fallback is asked
FallbackCases == {"non2xx", "api_error", "timeout", "raises"}
\* the strings a search returns in place of results
SearchErrors == {"Search unavailable: e", "Google Search API error: status",
                 "Google Search API error: message", "Search error: e"}

\* C25: a search makes at most one Google request and at most one DuckDuckGo
\* request; DuckDuckGo is asked exactly when the keys are missing (and then
\* Google is not asked) or the Google request answered non-200, answered
\* with an error in its payload or raised a network error; when DuckDuckGo
\* fails too the search returns an error string; after a successful Google
\* answer DuckDuckGo is not asked.
C25_OnePrimaryOneFallback ==
    Searched =>
        /\ Cardinality(SentTo("google")) <= 1
        /\ Cardinality(SentTo("duckduckgo")) <= 1
        /\ Len(tool_sent) = Cardinality(SentTo("google")) + Cardinality(SentTo("duckduckgo"))
        /\ SentTo("google") = {} <=> ~tool_call.has_keys
        /\ SentTo("duckduckgo") # {} <=>
               (~tool_call.has_keys \/ tool_call.dep \in FallbackCases)
        /\ (SentTo("duckduckgo") # {} /\ tool_call.ddg = "raises") =>
               (~tool_result.raised /\ tool_result.value \in SearchErrors)
        /\ (tool_call.has_keys /\ tool_call.dep \in {"ok", "no_items"}) =>
               (SentTo("duckduckgo") = {} /\ ~tool_result.raised)

C25_Witness ==
    /\ Searched /\ tool_call.has_keys
    /\ tool_call.dep = "api_error" /\ tool_call.ddg = "raises"
    /\ tool_sent = <<"google", "duckduckgo">>
    /\ tool_result = Returns("Google Search API error: message")

\* the run thread of c is alive: started and not yet past its finally clause
InRun(c) == rpc[c] # "none"

\* C26 as stated: processed_results is replaced only by a run that has
\* returned, with the list it returned; while a run is in flight
\* processed_results keeps its value, also when the run raises; and the
\* payload of a submission is the answers of the list as it then stands.
C26_ReplacedOnlyOnReturn ==
    [][/\ processed_results' # processed_results =>
             \E c \in CallerIds :
                 /\ Returned(c) /\ ~InRun(c)'
                 /\ processed_results' = results[c]
       /\ \A c \in CallerIds :
             (InRun(c) /\ InRun(c)') => processed_results' = processed_results
       /\ \A s \in SubmitterIds :
             payload'[s] # payload[s] => payload'[s] = Answers(processed_results)]_vars

\* the reports process_questions_parallel made in run c: the first one and
\* the per-item ones
RunReports(c) == SelectSeq(log[c], LAMBDA r : r.kind \in {"start", "item"})
\* percentages, as pairs, in order
Below(p, q) == p[1] * q[2] < q[1] * p[2]
Hundred(p) == p[1] = 100 * p[2]
\* what C27 says of every state of a run over at least one item, but for its
\* last report
CountsUp(c) ==
    /\ completed[c] <= Len(input[c])
    /\ completed[c] = Cardinality({i \in DOMAIN fut[c] : fut[c][i].st = "collected"})
    /\ \A k, l \in 1 .. Len(RunReports(c)) :
         k < l => Below(RunReports(c)[k].percent, RunReports(c)[l].percent)
\* the "All questions processed successfully" report is the last of its run,
\* made by the step that ends the thread (whose reports stay until the next
\* run thread makes its first)
DoneIsLast(c) ==
    \A k \in 1 .. Len(log[c]) :
        log[c][k].kind = "done" =>
            /\ k = Len(log[c]) /\ rpc[c] \in {"none", "start"}
            /\ Hundred(log[c][k].percent)
\* the counter moves by one, with the collection of one item
CountsByOne ==
    \A c \in CallerIds :
        (InRun(c) /\ InRun(c)' /\ completed'[c] # completed[c]) =>
            /\ completed'[c] = completed[c] + 1
            /\ Cardinality({i \in 1 .. MaxN : Collects(c, i)}) = 1
\* the run of c has returned over at least one item
ReturnedSome(c) == Returned(c) /\ Len(input[c]) >= 1

NoQuestions == "No questions loaded. Please fetch questions first."
\* handler c leaves the checks of process_questions_async in this step
ChecksStep(c) == hpc[c] = "pqa" /\ hpc'[c] # "pqa"

\* C28: process_questions_async over an empty questions_data reports "No
\* questions loaded" and returns: the flag, the run threads, the agent, the
\* cache, its file and processed_results stay as they are; and the checks
\* give that message for an empty list whether or not is_processing is set.
C28_EmptyQuestionsFirst ==
    /\ [](\A processing \in BOOLEAN : AsyncChecks(<<>>, processing) = NoQuestions)
    /\ [][\A c \in CallerIds :
            (ChecksStep(c) /\ questions_data = <<>>) =>
                /\ notice'[c] = NoQuestions
                /\ hpc'[c] = "idle"
                /\ UNCHANGED <<is_processing, rpc, runloc, agent, cache, file,
                               processed_results, questions_data>>]_vars

C28_Witness ==
    \E c \in CallerIds :
        /\ notice[c] = NoQuestions
        /\ hpc[c] = "idle" /\ rpc[c] = "none"
        /\ questions_data = <<>>
        /\ ~is_processing /\ agent = None /\ cache # EmptyMapping

\* the profiles a submit_answers_action call can get: none, or a user's
Profiles == {None, "profile"}
\* a submit_answers_action call ends at one of its checks in this step
SubmitRejected == submitsLeft' = submitsLeft - 1 /\ spc' = spc
\* it goes on to the POST
SubmitPassed(s) == spc[s] = "idle" /\ spc'[s] = "set"
\* it builds the payload and posts it
Posts(s) == spc[s] = "set" /\ spc'[s] = "post"
\* the entry of the answers list for a result record
AnswerEntry(r) == [task_id |-> r.task_id, submitted_answer |-> r.submitted_answer]

\* C29: submit_answers_action posts only after its three checks passed, the
\* profile first, then processed_results, then is_submitting; a rejected
\* call returns the message of the first check that failed and changes
\* neither is_submitting nor processed_results; and the answers list it posts
\* has one entry per processed result, task_id and submitted_answer, in the
\* order of processed_results.
C29_SubmitChecksThenPosts ==
    /\ [](/\ \A list \in {<<>>, processed_results}, busy \in BOOLEAN :
               SubmitChecks(None, list, busy) =
                   "Please log in to Hugging Face first."
          /\ \A busy \in BOOLEAN :
               SubmitChecks("profile", <<>>, busy) =
                   "No processed results to submit."
          /\ \A s \in SubmitterIds :
               spc[s] \in {"set", "post"} => processed_results # <<>>)
    /\ [][/\ SubmitRejected =>
                /\ \E s \in SubmitterIds, profile \in Profiles :
                     /\ SubmitChecks(profile, processed_results, is_submitting) # None
                     /\ sreply' = [sreply EXCEPT ![s] =
                           SubmitChecks(profile, processed_results, is_submitting)]
                /\ UNCHANGED <<is_submitting, processed_results, payload>>
          /\ \A s \in SubmitterIds :
                /\ SubmitPassed(s) => (processed_results # <<>> /\ ~is_submitting)
                /\ Posts(s) =>
                      /\ Len(payload'[s]) = Len(processed_results)
                      /\ \A k \in 1 .. Len(processed_results) :
                           payload'[s][k] = AnswerEntry(processed_results[k])]_vars

C29_Witness ==
    \E s \in SubmitterIds :
        /\ spc[s] = "post"
        /\ Len(payload[s]) = MaxAppQuestions
        /\ payload[s][1].task_id # payload[s][2].task_id
        /\ \E t \in SubmitterIds : sreply[t] = "Already submitting..."

\* a fetch_questions_action call returns in this step
FetchStep == fetchesLeft' = fetchesLeft - 1
\* the call found a list to store
FetchedSome == fetched'.count > 0

\* C30: a fetch that fails (network error, non-2xx status, unusable body, empty
\* list) leaves questions_data as it was and returns count 0 with the process
\* and the submit button disabled; a fetch that succeeds stores its list, which
\* is not empty, returns its length and enables both buttons; nothing else
\* changes questions_data, and a fetch changes neither processed_results nor
\* the cache, its file or the is_processing and is_submitting flags.
C30_OnlySuccessfulFetchStores ==
    [][/\ FetchStep =>
            /\ UNCHANGED <<processed_results, cache, file, is_processing,
                           is_submitting, agent, rpc, runloc>>
            /\ IF FetchedSome
               THEN /\ questions_data' # <<>>
                    /\ fetched'.count = Len(questions_data')
                    /\ fetched'.process_btn /\ fetched'.submit_btn
               ELSE /\ questions_data' = questions_data
                    /\ fetched'.count = 0
                    /\ ~fetched'.process_btn /\ ~fetched'.submit_btn
       /\ questions_data' # questions_data => (FetchStep /\ FetchedSome)]_vars

C30_Witness ==
    /\ fetchesLeft = 0
    /\ fetched = FetchReturn("Fetched questions list is empty.", 0, FALSE)
    /\ Len(questions_data) = MaxAppQuestions
    /\ is_processing
    /\ \E c \in CallerIds : InRun(c) /\ Len(input[c]) < Len(questions_data)

====
